---- MODULE Spec2Model ----
(***************************************************************************)
(* A model of pymatgen's vasp2trace caller and parser                      *)
(* (pymatgen/command_line/vasp2trace_caller.py) and of the band topology   *)
(* analyzer (pymatgen/analysis/topology/analyzer.py).                      *)
(*                                                                         *)
(* Text is a sequence of code points, a file is a sequence of lines as     *)
(* file.readlines() returns them (each line keeps its newline).            *)
(***************************************************************************)
EXTENDS Integers, Sequences, FiniteSets, TLC

(***************************************************************************)
(* The state: the parser's, the caller's, the analyzer's.                   *)
(***************************************************************************)
VARIABLES ppc, gen, stray, trace_file, v2to, stored, restored

pvars == <<ppc, gen, stray, trace_file, v2to, stored, restored>>

VARIABLES cpc, vasp2traceexe, folder_files, named_file, cwd, cwd_at_call,
          folder_name, process, stdout, stderr, log, raised, output, parser_calls,
          attrs

cvars == <<cpc, vasp2traceexe, folder_files, named_file, cwd, cwd_at_call,
           folder_name, process, stdout, stderr, log, raised, output, parser_calls,
           attrs>>

VARIABLES apc, input_dir, surface, system, z2_settings, ext, surface_run_call,
          result, bta, chern_args, z2_args, araised

avars == <<apc, input_dir, surface, system, z2_settings, ext, surface_run_call,
           result, bta, chern_args, z2_args, araised>>

vars == <<pvars, cvars, avars>>

(***************************************************************************)
(* Bounds of the input space.                                              *)
(***************************************************************************)
MaxSymmOps == 2
MaxKvec == 3
MaxBands == 2

(***************************************************************************)
(* Code points of the characters the parser's code names or relies on.     *)
(***************************************************************************)
SP == 32
NL == 10
TAB == 9
DOT == 46
MINUS == 45
PLUS == 43
ZERO == 48

Whitespace == {SP, NL, TAB, 11, 12, 13}
Digits == ZERO .. (ZERO + 9)

(***************************************************************************)
(* Python's built-ins, as the parser uses them.                            *)
(***************************************************************************)
RECURSIVE SplitAcc(_, _, _, _)
SplitAcc(s, sep, cur, acc) ==
    IF s = <<>> THEN Append(acc, cur)
    ELSE IF Head(s) = sep
         THEN SplitAcc(Tail(s), sep, <<>>, Append(acc, cur))
         ELSE SplitAcc(Tail(s), sep, Append(cur, Head(s)), acc)

\* str.split(sep): the pieces between occurrences of sep, empty ones kept.
str_split(s, sep) == SplitAcc(s, sep, <<>>, <<>>)

RECURSIVE SplitWsAcc(_, _, _)
SplitWsAcc(s, cur, acc) ==
    IF s = <<>> THEN (IF cur = <<>> THEN acc ELSE Append(acc, cur))
    ELSE IF Head(s) \in Whitespace
         THEN SplitWsAcc(Tail(s), <<>>, IF cur = <<>> THEN acc ELSE Append(acc, cur))
         ELSE SplitWsAcc(Tail(s), Append(cur, Head(s)), acc)

\* str.split(): the tokens between runs of whitespace.
str_split_ws(s) == SplitWsAcc(s, <<>>, <<>>)

RECURSIVE LStrip(_, _)
LStrip(s, chars) ==
    IF s # <<>> /\ Head(s) \in chars THEN LStrip(Tail(s), chars) ELSE s

RECURSIVE RStrip(_, _)
RStrip(s, chars) ==
    IF s # <<>> /\ s[Len(s)] \in chars
    THEN RStrip(SubSeq(s, 1, Len(s) - 1), chars)
    ELSE s

\* str.strip(chars)
str_strip(s, chars) == RStrip(LStrip(s, chars), chars)

RECURSIVE DigitsValue(_, _)
DigitsValue(s, acc) ==
    IF s = <<>> THEN acc ELSE DigitsValue(Tail(s), 10 * acc + (Head(s) - ZERO))

AllDigits(s) == s # <<>> /\ \A i \in 1 .. Len(s) : s[i] \in Digits

\* int(text): surrounding whitespace is ignored, an optional sign, then digits
\* only; anything else is a ValueError.
IntOfStripped(t) ==
    LET signed == t # <<>> /\ Head(t) \in {MINUS, PLUS}
        body == IF signed THEN Tail(t) ELSE t
    IN  IF AllDigits(body)
        THEN [ok |-> TRUE,
              val |-> IF signed /\ Head(t) = MINUS
                      THEN 0 - DigitsValue(body, 0)
                      ELSE DigitsValue(body, 0)]
        ELSE [ok |-> FALSE, val |-> 0]

PyInt(s) == IntOfStripped(str_strip(s, Whitespace))

RECURSIVE Normalise(_, _)
Normalise(m, e) ==
    IF e > 0 /\ m % 10 = 0 THEN Normalise(m \div 10, e - 1) ELSE <<m, e>>

\* float(token) for the decimal notation of the trace file: an optional sign,
\* digits with at most one point and at least one digit.  The value is the
\* pair <<mantissa, decimals>> with trailing zeros removed (mantissa / 10^decimals).
FloatOfParts(negative, parts) ==
    LET int_part == parts[1]
        frac_part == IF Len(parts) = 2 THEN parts[2] ELSE <<>>
        n == Normalise(DigitsValue(int_part \o frac_part, 0), Len(frac_part))
    IN  IF Len(parts) <= 2 /\ AllDigits(int_part \o frac_part)
        THEN [ok |-> TRUE, val |-> IF negative THEN <<0 - n[1], n[2]>> ELSE n]
        ELSE [ok |-> FALSE, val |-> <<0, 0>>]

PyFloat(tok) ==
    LET signed == tok # <<>> /\ Head(tok) \in {MINUS, PLUS}
    IN  FloatOfParts(signed /\ Head(tok) = MINUS,
                     str_split(IF signed THEN Tail(tok) ELSE tok, DOT))

\* seq[a:b] with 0-based non-negative bounds, clamped as Python clamps them.
Slice(seq, a, b) ==
    LET hi == IF b > Len(seq) THEN Len(seq) ELSE b
    IN  IF a >= hi THEN <<>> ELSE SubSeq(seq, a + 1, hi)

\* seq[i] with a 0-based index (no negative index occurs in the parser).
InRange(seq, i) == i >= 0 /\ i < Len(seq)
Item(seq, i) == seq[i + 1]

(***************************************************************************)
(* numpy.loadtxt on a list of lines: blank lines are skipped, every token  *)
(* must be a float, every row must have the same number of columns, and    *)
(* the result is squeezed: one row gives a 1-d array of its columns, one   *)
(* column gives a 1-d array of its rows, one value gives a 0-d array.      *)
(***************************************************************************)
RowTokens(ls) ==
    LET toks == [i \in 1 .. Len(ls) |-> str_split_ws(ls[i])]
    IN  SelectSeq(toks, LAMBDA t : t # <<>>)

RowValues(toks) == [j \in 1 .. Len(toks) |-> PyFloat(toks[j]).val]

Squeeze(rows) ==
    IF Len(rows) = 0 THEN [ndim |-> 1, data |-> <<>>]
    ELSE IF Len(rows) = 1 /\ Len(rows[1]) = 1 THEN [ndim |-> 0, data |-> rows[1][1]]
    ELSE IF Len(rows) = 1 THEN [ndim |-> 1, data |-> rows[1]]
    ELSE IF Len(rows[1]) = 1
         THEN [ndim |-> 1, data |-> [i \in 1 .. Len(rows) |-> rows[i][1]]]
    ELSE [ndim |-> 2, data |-> rows]

ArrayOfTokens(toks) ==
    LET numeric == \A i \in 1 .. Len(toks) :
                     \A j \in 1 .. Len(toks[i]) : PyFloat(toks[i][j]).ok
        regular == \A i \in 1 .. Len(toks) : Len(toks[i]) = Len(toks[1])
    IN  IF numeric /\ regular
        THEN [ok |-> TRUE,
              arr |-> Squeeze([i \in 1 .. Len(toks) |-> RowValues(toks[i])])]
        ELSE [ok |-> FALSE, arr |-> [ndim |-> 1, data |-> <<>>]]

loadtxt(ls) == ArrayOfTokens(RowTokens(ls))

\* len(array) and the number of iterations of a loop over it: the length of
\* the first axis; a 0-d array has none (TypeError).
HasLen(arr) == arr.ndim > 0
ArrLen(arr) == Len(arr.data)

(***************************************************************************)
(* Vasp2TraceOutput._parse_stdout                                          *)
(***************************************************************************)
EmptyDict == <<>>
DictPut(d, k, v) == [x \in (DOMAIN d) \cup {k} |-> IF x = k THEN v ELSE d[x]]

NoRecord == [none |-> TRUE]

Raised(e, scanned, starts) ==
    [status |-> "raised", error |-> e, scanned |-> scanned,
     block_starts |-> starts, out |-> NoRecord]

\* line = [i for i in line.split(" ") if i]
SpaceEntries(line) == SelectSeq(str_split(line, SP), LAMBDA p : p # <<>>)

\* if len(line) == 1:  # A single entry <-> new block
IsBlockStart(line) == Len(SpaceEntries(line)) = 1

\* The loop over lines[trace_start - 1 :] that collects block_starts
\* (0-based line numbers, in increasing order).
RECURSIVE ScanBlockStarts(_, _, _)
ScanBlockStarts(lines, jdx, acc) ==
    IF jdx >= Len(lines) THEN acc
    ELSE ScanBlockStarts(lines, jdx + 1,
                         IF IsBlockStart(Item(lines, jdx)) THEN Append(acc, jdx) ELSE acc)

\* [int(i.strip("\n")) for i in lines[start_block + 1].split(" ") if i.strip("\n")]
LittleCogroupEntries(line) ==
    SelectSeq([i \in 1 .. Len(str_split(line, SP)) |->
                  str_strip(str_split(line, SP)[i], {NL})],
              LAMBDA p : p # <<>>)

\* [int(i...) for i in ...]
IntEntries(entries) == [i \in 1 .. Len(entries) |-> PyInt(entries[i])]

\* trace_str: lines[start_block + 2 : block_starts[idx + 1]] for every block
\* but the last, lines[start_block + 2 :] for the last.
TraceStr(lines, block_starts, num_max_kvec, idx) ==
    IF idx < num_max_kvec - 1
    THEN Slice(lines, Item(block_starts, idx) + 2, Item(block_starts, idx + 1))
    ELSE Slice(lines, Item(block_starts, idx) + 2, Len(lines))

\* The three dicts with the entries of block idx stored.
StoreBlock(acc, idx, count, soilcg, trace) ==
    [error |-> "",
     num_kvec_symm_ops |-> DictPut(acc.num_kvec_symm_ops, idx, count.val),
     symm_ops_in_little_cogroup |->
         DictPut(acc.symm_ops_in_little_cogroup, idx,
                 [i \in 1 .. Len(soilcg) |-> soilcg[i].val]),
     traces |-> DictPut(acc.traces, idx, trace.arr)]

\* "for idx, kpt in enumerate(kvecs)": BlockLoop is the loop from pass idx on,
\* acc holding the three dicts; BlockPass is the body of one pass once the
\* slice bounds are found, with count = int(lines[start_block]), soilcg the
\* converted entries of the next line and trace = np.loadtxt(trace_str).
RECURSIVE BlockLoop(_, _, _, _, _, _)
RECURSIVE BlockPass(_, _, _, _, _, _, _, _, _)
BlockPass(lines, block_starts, num_max_kvec, n_iter, idx, acc, count, soilcg, trace) ==
    IF ~count.ok THEN [acc EXCEPT !.error = "ValueError"]
    ELSE IF ~InRange(lines, Item(block_starts, idx) + 1)
         THEN [acc EXCEPT !.error = "IndexError"]
    ELSE IF \E i \in 1 .. Len(soilcg) : ~soilcg[i].ok
         THEN [acc EXCEPT !.error = "ValueError"]
    ELSE IF ~trace.ok THEN [acc EXCEPT !.error = "ValueError"]
    ELSE BlockLoop(lines, block_starts, num_max_kvec, n_iter, idx + 1,
                   StoreBlock(acc, idx, count, soilcg, trace))

BlockLoop(lines, block_starts, num_max_kvec, n_iter, idx, acc) ==
    IF idx >= n_iter THEN acc
    ELSE IF ~InRange(block_starts, idx) THEN [acc EXCEPT !.error = "IndexError"]
    ELSE IF idx < num_max_kvec - 1 /\ ~InRange(block_starts, idx + 1)
         THEN [acc EXCEPT !.error = "IndexError"]
    ELSE BlockPass(lines, block_starts, num_max_kvec, n_iter, idx, acc,
                   PyInt(Item(lines, Item(block_starts, idx))),
                   IntEntries(LittleCogroupEntries(
                                  Item(lines, Item(block_starts, idx) + 1))),
                   loadtxt(TraceStr(lines, block_starts, num_max_kvec, idx)))

EmptyDicts ==
    [error |-> "", num_kvec_symm_ops |-> EmptyDict,
     symm_ops_in_little_cogroup |-> EmptyDict, traces |-> EmptyDict]

\* The end of _parse_stdout: the attributes are set from what was read.
SetAttributes(num_occ_bands, soc, num_symm_ops, symm_ops, num_max_kvec, kvecs, block_starts, dicts) ==
    IF dicts.error # "" THEN Raised(dicts.error, TRUE, block_starts)
    ELSE [status |-> "ok", error |-> "", scanned |-> TRUE,
          block_starts |-> block_starts,
          out |-> [num_occ_bands |-> num_occ_bands,
                   soc |-> soc,
                   num_symm_ops |-> num_symm_ops,
                   symm_ops |-> symm_ops.arr,
                   num_max_kvec |-> num_max_kvec,
                   kvecs |-> kvecs.arr,
                   num_kvec_symm_ops |-> dicts.num_kvec_symm_ops,
                   symm_ops_in_little_cogroup |-> dicts.symm_ops_in_little_cogroup,
                   traces |-> dicts.traces]]

\* _parse_stdout from the k-vector table on: kvecs is the loaded table and
\* block_starts the result of the scan from line trace_start - 1.
ParseBlocks(lines, num_occ_bands, soc, num_symm_ops, symm_ops, num_max_kvec, kvecs, block_starts) ==
    IF ~kvecs.ok THEN Raised("ValueError", FALSE, <<>>)
    ELSE IF ~HasLen(kvecs.arr) THEN Raised("TypeError", TRUE, block_starts)
    ELSE SetAttributes(num_occ_bands, soc, num_symm_ops, symm_ops, num_max_kvec,
                       kvecs, block_starts,
                       BlockLoop(lines, block_starts, num_max_kvec,
                                 ArrLen(kvecs.arr), 0, EmptyDicts))

\* _parse_stdout from num_max_kvec = int(lines[3 + num_symm_ops]) on.
ParseKvecs(lines, num_occ_bands, soc, num_symm_ops, symm_ops, num_max_kvec) ==
    IF ~num_max_kvec.ok THEN Raised("ValueError", FALSE, <<>>)
    ELSE ParseBlocks(lines, num_occ_bands, soc, num_symm_ops, symm_ops,
                     num_max_kvec.val,
                     loadtxt(Slice(lines, 4 + num_symm_ops,
                                   4 + num_symm_ops + num_max_kvec.val)),
                     \* trace_start = 5 + num_max_kvec + num_symm_ops
                     ScanBlockStarts(lines, 5 + num_max_kvec.val + num_symm_ops - 1,
                                     <<>>))

\* _parse_stdout once symm_ops = np.loadtxt(lines[3 : 3 + num_symm_ops]) is read.
ParseSymmOps(lines, num_occ_bands, soc, num_symm_ops, symm_ops) ==
    IF ~symm_ops.ok THEN Raised("ValueError", FALSE, <<>>)
    ELSE IF ~InRange(lines, 3 + num_symm_ops) THEN Raised("IndexError", FALSE, <<>>)
    ELSE ParseKvecs(lines, num_occ_bands, soc, num_symm_ops, symm_ops,
                    PyInt(Item(lines, 3 + num_symm_ops)))

\* The body of _parse_stdout after the header counts are read: the two
\* tables, the scan for block starts, the loop over the blocks.  The counts
\* read from a header are not negative here (the layout writes them unsigned).
ParseTables(lines, num_occ_bands, soc, num_symm_ops) ==
    ParseSymmOps(lines, num_occ_bands, soc, num_symm_ops,
                 loadtxt(Slice(lines, 3, 3 + num_symm_ops)))

\* _parse_stdout on the lines file.readlines() returned.
parse_lines(lines) ==
    IF Len(lines) < 1 THEN Raised("IndexError", FALSE, <<>>)
    ELSE IF ~PyInt(Item(lines, 0)).ok THEN Raised("ValueError", FALSE, <<>>)
    ELSE IF Len(lines) < 2 THEN Raised("IndexError", FALSE, <<>>)
    ELSE IF ~PyInt(Item(lines, 1)).ok THEN Raised("ValueError", FALSE, <<>>)
    ELSE IF Len(lines) < 3 THEN Raised("IndexError", FALSE, <<>>)
    ELSE IF ~PyInt(Item(lines, 2)).ok THEN Raised("ValueError", FALSE, <<>>)
    ELSE ParseTables(lines, PyInt(Item(lines, 0)).val, PyInt(Item(lines, 1)).val,
                     PyInt(Item(lines, 2)).val)

(***************************************************************************)
(* Vasp2TraceOutput.__init__: the attributes are set from the arguments,   *)
(* then _parse_stdout opens the file named by vasp2trace_stdout and, when  *)
(* it parses, overwrites every attribute but the name.  file is what the   *)
(* file system holds under that name.                                      *)
(***************************************************************************)
NoFile == [exists |-> FALSE, lines |-> <<>>]
FileOf(lines) == [exists |-> TRUE, lines |-> lines]

_parse_stdout(file) ==
    IF ~file.exists THEN Raised("FileNotFoundError", FALSE, <<>>)
    ELSE parse_lines(file.lines)

\* The object after __init__, parsed being what _parse_stdout did.
Initialized(vasp2trace_stdout, parsed) ==
    IF parsed.status = "ok"
    THEN [status |-> "ok", error |-> "",
          _vasp2trace_stdout |-> vasp2trace_stdout,
          out |-> parsed.out, block_starts |-> parsed.block_starts,
          scanned |-> TRUE]
    ELSE [status |-> "raised", error |-> parsed.error,
          _vasp2trace_stdout |-> vasp2trace_stdout,
          out |-> NoRecord, block_starts |-> parsed.block_starts,
          scanned |-> parsed.scanned]

Vasp2TraceOutput(vasp2trace_stdout, kwargs, file) ==
    Initialized(vasp2trace_stdout, _parse_stdout(file))

\* MSONable.as_dict: constructor argument name -> the attribute of that name
\* (or of that name with a leading underscore).
as_dict(obj) == [vasp2trace_stdout |-> obj._vasp2trace_stdout, fields |-> obj.out]

\* MSONable.from_dict: cls(**d), which runs __init__ again.
from_dict(d, file) == Vasp2TraceOutput(d.vasp2trace_stdout, d.fields, file)

(***************************************************************************)
(* The trace files given to the parser: the layout vasp2trace writes       *)
(* (entries right-aligned after blanks, one line per row), for S symmetry  *)
(* operations, K maximal k-vectors, little cogroups of sizes[k] operations *)
(* and nbands rows per trace table.                                        *)
(***************************************************************************)
RECURSIVE NatChars(_)
NatChars(n) ==
    IF n < 10 THEN <<ZERO + n>> ELSE Append(NatChars(n \div 10), ZERO + (n % 10))

Dec(i, f) == NatChars(i) \o <<DOT>> \o NatChars(f)

RECURSIVE JoinEntries(_)
JoinEntries(toks) ==
    IF toks = <<>> THEN <<>> ELSE <<SP, SP>> \o Head(toks) \o JoinEntries(Tail(toks))

FileLine(toks) == Append(JoinEntries(toks), NL)

SymmOpLine(i) ==
    FileLine(<<NatChars(1), NatChars(0), NatChars(0),
               NatChars(0), NatChars(1), NatChars(0),
               NatChars(0), NatChars(0), NatChars(1),
               Dec(0, 0), Dec(0, 0), Dec(i - 1, 5)>>)

KvecLine(k) == FileLine(<<Dec(0, 0), Dec(0, 5), Dec(k - 1, 0)>>)

RECURSIVE TraceEntries(_)
TraceEntries(n) ==
    IF n = 0 THEN <<>> ELSE TraceEntries(n - 1) \o <<Dec(1, 0), Dec(0, 0)>>

TraceLine(band, n) ==
    FileLine(<<NatChars(band), NatChars(1), <<MINUS>> \o Dec(5, band)>> \o TraceEntries(n))

BlockLines(n, nbands) ==
    <<FileLine(<<NatChars(n)>>), FileLine([i \in 1 .. n |-> NatChars(i)])>>
    \o [b \in 1 .. nbands |-> TraceLine(b, n)]

RECURSIVE AllBlocks(_, _, _)
AllBlocks(sizes, k, nbands) ==
    IF k = 0 THEN <<>> ELSE AllBlocks(sizes, k - 1, nbands) \o BlockLines(sizes[k], nbands)

OccBands == 68

TraceFileLines(S, K, sizes, nbands) ==
    <<FileLine(<<NatChars(OccBands)>>), FileLine(<<NatChars(1)>>), FileLine(<<NatChars(S)>>)>>
    \o [i \in 1 .. S |-> SymmOpLine(i)]
    \o <<FileLine(<<NatChars(K)>>)>>
    \o [k \in 1 .. K |-> KvecLine(k)]
    \o AllBlocks(sizes, K, nbands)

\* The last line of a file need not end with a newline.
DropFinalNewline(lines) ==
    [i \in 1 .. Len(lines) |->
        IF i = Len(lines) THEN SubSeq(lines[i], 1, Len(lines[i]) - 1) ELSE lines[i]]

\* Lines a file may also hold among its blocks: a blank line, an entry
\* followed by a blank, two entries separated by a tab, an entry after a tab,
\* a line of blanks.
StrayLines ==
    {<<NL>>, <<SP, ZERO + 5, SP, NL>>, <<ZERO + 5, TAB, ZERO + 6, NL>>,
     <<TAB, ZERO + 5, NL>>, <<SP, SP, NL>>}

InsertLine(lines, pos, line) ==
    SubSeq(lines, 1, pos) \o <<line>> \o SubSeq(lines, pos + 1, Len(lines))

TraceInputs ==
    UNION { UNION { { [S |-> S, K |-> K, sizes |-> sz, nbands |-> nb, eof_newline |-> nl]
                        : sz \in [1 .. K -> 1 .. S], nb \in 1 .. MaxBands, nl \in BOOLEAN }
                    : K \in 1 .. MaxKvec }
            : S \in 1 .. MaxSymmOps }

NoStray == [pos |-> 0 - 1, line |-> <<>>]

\* 0-based number of the first block line: the line after the k-vector table.
FirstBlockLine(g) == 4 + g.S + g.K

BaseLines(g) ==
    IF g.eof_newline THEN TraceFileLines(g.S, g.K, g.sizes, g.nbands)
    ELSE DropFinalNewline(TraceFileLines(g.S, g.K, g.sizes, g.nbands))

\* A stray line is put before the line numbered pos, or after the last line.
StrayChoices(g) ==
    {NoStray} \cup
    IF g.eof_newline
    THEN { [pos |-> p, line |-> l]
             : p \in FirstBlockLine(g) .. Len(BaseLines(g)), l \in StrayLines }
    ELSE {}

InputLines(g, st) ==
    IF st = NoStray THEN BaseLines(g)
    ELSE InsertLine(BaseLines(g), st.pos, st.line)

\* The file a later vasp2trace run leaves under the same name.
RewrittenLines == TraceFileLines(2, 2, <<2, 2>>, 1)

TracePath == "trace.txt"


NoObject ==
    [status |-> "none", error |-> "", _vasp2trace_stdout |-> "",
     out |-> NoRecord, block_starts |-> <<>>, scanned |-> FALSE]

NoDict == [vasp2trace_stdout |-> "", fields |-> NoRecord]

ParserInit ==
    /\ ppc = "new"
    /\ gen \in TraceInputs
    /\ stray \in StrayChoices(gen)
    /\ trace_file = "written"
    /\ v2to = NoObject
    /\ stored = NoDict
    /\ restored = NoObject

\* What the file system holds under TracePath: the file as first written, the
\* file a later run wrote, or nothing.
TraceFile ==
    CASE trace_file = "written" -> FileOf(InputLines(gen, stray))
      [] trace_file = "rewritten" -> FileOf(RewrittenLines)
      [] OTHER -> NoFile

\* v2to = Vasp2TraceOutput(path)
Construct ==
    /\ UNCHANGED <<cvars, avars>>
    /\ ppc = "new"
    /\ v2to' = Vasp2TraceOutput(TracePath, NoRecord, TraceFile)
    /\ ppc' = IF v2to'.status = "ok" THEN "built" ELSE "failed"
    /\ UNCHANGED <<gen, stray, trace_file, stored, restored>>

\* d = v2to.as_dict()
Serialize ==
    /\ UNCHANGED <<cvars, avars>>
    /\ ppc = "built"
    /\ stored' = as_dict(v2to)
    /\ ppc' = "stored"
    /\ UNCHANGED <<gen, stray, trace_file, v2to, restored>>

\* The file system between the two: the trace file is removed,
RemoveTraceFile ==
    /\ UNCHANGED <<cvars, avars>>
    /\ ppc = "stored"
    /\ trace_file # "removed"
    /\ trace_file' = "removed"
    /\ UNCHANGED <<ppc, gen, stray, v2to, stored, restored>>

\* or written again by another run.
RewriteTraceFile ==
    /\ UNCHANGED <<cvars, avars>>
    /\ ppc = "stored"
    /\ trace_file = "written"
    /\ InputLines(gen, stray) # RewrittenLines
    /\ trace_file' = "rewritten"
    /\ UNCHANGED <<ppc, gen, stray, v2to, stored, restored>>

\* Vasp2TraceOutput.from_dict(d)
Deserialize ==
    /\ UNCHANGED <<cvars, avars>>
    /\ ppc = "stored"
    /\ restored' = from_dict(stored, TraceFile)
    /\ ppc' = "restored"
    /\ UNCHANGED <<gen, stray, trace_file, v2to, stored>>


(***************************************************************************)
(* Vasp2TraceCaller.__init__                                               *)
(***************************************************************************)

\* bytes.decode(): strict UTF-8.  A byte sequence that is not well-formed
\* UTF-8 raises UnicodeDecodeError.
IsCont(b) == b >= 128 /\ b <= 191

\* The length of the sequence a lead byte opens; 0 for a byte that opens none.
Utf8Width(b) ==
    IF b < 128 THEN 1
    ELSE IF b >= 194 /\ b <= 223 THEN 2
    ELSE IF b >= 224 /\ b <= 239 THEN 3
    ELSE IF b >= 240 /\ b <= 244 THEN 4
    ELSE 0

\* The sequence opened at position i is complete and well-formed.
Utf8SequenceOk(b, i) ==
    LET w == Utf8Width(b[i])
    IN  /\ w >= 1
        /\ i + w - 1 <= Len(b)
        /\ \A j \in (i + 1) .. (i + w - 1) : IsCont(b[j])
        /\ (i + w <= Len(b) => ~IsCont(b[i + w]))
        /\ (b[i] = 224 => b[i + 1] >= 160)
        /\ (b[i] = 237 => b[i + 1] <= 159)
        /\ (b[i] = 240 => b[i + 1] >= 144)
        /\ (b[i] = 244 => b[i + 1] <= 143)

Utf8CodePoint(b, i) ==
    LET w == Utf8Width(b[i])
    IN  IF w = 1 THEN b[i]
        ELSE IF w = 2 THEN (b[i] - 192) * 64 + (b[i + 1] - 128)
        ELSE IF w = 3
             THEN (b[i] - 224) * 4096 + (b[i + 1] - 128) * 64 + (b[i + 2] - 128)
        ELSE (b[i] - 240) * 262144 + (b[i + 1] - 128) * 4096
             + (b[i + 2] - 128) * 64 + (b[i + 3] - 128)

bytes_decode(b) ==
    LET leads == SelectSeq([i \in 1 .. Len(b) |-> i], LAMBDA i : ~IsCont(b[i]))
    IN  IF /\ (b # <<>> => ~IsCont(b[1]))
           /\ \A k \in 1 .. Len(leads) : Utf8SequenceOk(b, leads[k])
        THEN [ok |-> TRUE,
              text |-> [k \in 1 .. Len(leads) |-> Utf8CodePoint(b, leads[k])]]
        ELSE [ok |-> FALSE, text |-> <<>>]

\* not path.isfile(folder_name + "/OUTCAR") or not path.isfile(folder_name + "/WAVECAR")
MissingPrerequisiteBoth(files) == "OUTCAR" \notin files /\ "WAVECAR" \notin files
MissingPrerequisite(files) == "OUTCAR" \notin files \/ "WAVECAR" \notin files

\* os.chdir(folder_name): the working directory afterwards.
ChdirSkipped(old_cwd, folder) == old_cwd
Chdir(old_cwd, folder) == folder

RECURSIVE Flatten(_)
Flatten(lines) == IF lines = <<>> THEN <<>> ELSE Head(lines) \o Flatten(Tail(lines))

\* What vasp2trace may leave on its standard output: a well-formed trace
\* listing, nothing, a byte that is no UTF-8, an accented letter.
ListingLines == TraceFileLines(2, 2, <<2, 2>>, 2)
ListingBytes == Flatten(ListingLines)
StdoutChoices == {ListingBytes, <<>>, <<255>>, <<195, 169>>}
\* and on its standard error: nothing, a message, a byte that is no UTF-8.
StderrChoices == {<<>>, <<101, 114, 114, 10>>, <<255>>}
ReturnCodes == {0, 1, 2, 0 - 11}
Dirs == {"/home", "/run"}


NotRaised == [type |-> "", at |-> "", code |-> 0]
NoProcess == [started |-> FALSE, finished |-> FALSE, returncode |-> 0,
              stdout |-> <<>>, stderr |-> <<>>]

CallerInit ==
    /\ cpc = "requires"
    /\ vasp2traceexe \in BOOLEAN
    /\ folder_files \in SUBSET {"OUTCAR", "WAVECAR"}
    /\ named_file \in BOOLEAN
    /\ cwd \in Dirs
    /\ cwd_at_call = cwd
    /\ folder_name \in Dirs
    /\ process = NoProcess
    /\ stdout = <<>>
    /\ stderr = <<>>
    /\ log = <<>>
    /\ raised = NotRaised
    /\ output = NoObject
    /\ parser_calls = 0
    /\ attrs = [set |-> FALSE, _stdout |-> <<>>, _stderr |-> <<>>]

Raise(type, at, code) ==
    /\ raised' = [type |-> type, at |-> at, code |-> code]
    /\ log' = Append(log, "raise")
    /\ cpc' = "raised"

\* @requires(VASP2TRACEEXE, ...): without the executable in the path the call
\* raises RuntimeError and the body of __init__ never runs.
Requires ==
    /\ UNCHANGED <<pvars, avars>>
    /\ cpc = "requires"
    /\ IF vasp2traceexe
       THEN cpc' = "check" /\ UNCHANGED <<raised, log>>
       ELSE Raise("RuntimeError", "requires", 0)
    /\ UNCHANGED <<vasp2traceexe, folder_files, named_file, cwd, cwd_at_call,
                   folder_name, process, stdout, stderr, output, parser_calls, attrs>>

\* Check for OUTCAR and WAVECAR
CheckFiles ==
    /\ UNCHANGED <<pvars, avars>>
    /\ cpc = "check"
    /\ IF MissingPrerequisite(folder_files)
       THEN Raise("FileNotFoundError", "check", 0)
       ELSE cpc' = "chdir" /\ UNCHANGED <<raised, log>>
    /\ UNCHANGED <<vasp2traceexe, folder_files, named_file, cwd, cwd_at_call,
                   folder_name, process, stdout, stderr, output, parser_calls, attrs>>

\* os.chdir(folder_name)
ChangeDir ==
    /\ UNCHANGED <<pvars, avars>>
    /\ cpc = "chdir"
    /\ cwd' = Chdir(cwd, folder_name)
    /\ log' = Append(log, "chdir")
    /\ cpc' = "popen"
    /\ UNCHANGED <<vasp2traceexe, folder_files, named_file, cwd_at_call, folder_name,
                   process, stdout, stderr, raised, output, parser_calls, attrs>>

\* process = subprocess.Popen(["vasp2trace"], ...)
Popen ==
    /\ UNCHANGED <<pvars, avars>>
    /\ cpc = "popen"
    /\ process' = [process EXCEPT !.started = TRUE]
    /\ log' = Append(log, "popen")
    /\ cpc' = "communicate"
    /\ UNCHANGED <<vasp2traceexe, folder_files, named_file, cwd, cwd_at_call,
                   folder_name, stdout, stderr, raised, output, parser_calls,
                   attrs>>

\* stdout, stderr = process.communicate(): the process ends with some return
\* code, having written some bytes to each pipe.
Communicate ==
    /\ UNCHANGED <<pvars, avars>>
    /\ cpc = "communicate"
    /\ \E rc \in ReturnCodes, out \in StdoutChoices, err \in StderrChoices :
         process' = [started |-> TRUE, finished |-> TRUE, returncode |-> rc,
                     stdout |-> out, stderr |-> err]
    /\ cpc' = "decode"
    /\ UNCHANGED <<vasp2traceexe, folder_files, named_file, cwd, cwd_at_call,
                   folder_name, stdout, stderr, log, raised, output, parser_calls,
                   attrs>>

\* stdout = stdout.decode()
DecodeStdout ==
    /\ UNCHANGED <<pvars, avars>>
    /\ cpc = "decode"
    /\ IF bytes_decode(process.stdout).ok
       THEN /\ stdout' = bytes_decode(process.stdout).text
            /\ cpc' = "stderr"
            /\ UNCHANGED <<raised, log>>
       ELSE /\ Raise("UnicodeDecodeError", "decode", 0)
            /\ UNCHANGED stdout
    /\ UNCHANGED <<vasp2traceexe, folder_files, named_file, cwd, cwd_at_call,
                   folder_name, process, stderr, output, parser_calls, attrs>>

\* if stderr: stderr = stderr.decode(); warnings.warn(stderr)
WarnStderr ==
    /\ UNCHANGED <<pvars, avars>>
    /\ cpc = "stderr"
    /\ IF process.stderr = <<>>
       THEN cpc' = "returncode" /\ UNCHANGED <<stderr, raised, log>>
       ELSE IF bytes_decode(process.stderr).ok
       THEN /\ stderr' = bytes_decode(process.stderr).text
            /\ log' = Append(log, "warn")
            /\ cpc' = "returncode"
            /\ UNCHANGED raised
       ELSE /\ Raise("UnicodeDecodeError", "stderr", 0)
            /\ UNCHANGED stderr
    /\ UNCHANGED <<vasp2traceexe, folder_files, named_file, cwd, cwd_at_call,
                   folder_name, process, stdout, output, parser_calls, attrs>>

\* if process.returncode != 0: raise RuntimeError("... return code {}.")
CheckReturnCode ==
    /\ UNCHANGED <<pvars, avars>>
    /\ cpc = "returncode"
    /\ IF process.returncode # 0
       THEN Raise("RuntimeError", "returncode", process.returncode)
       ELSE cpc' = "output" /\ UNCHANGED <<raised, log>>
    /\ UNCHANGED <<vasp2traceexe, folder_files, named_file, cwd, cwd_at_call,
                   folder_name, process, stdout, stderr, output, parser_calls, attrs>>

\* What open(stdout) finds: the decoded standard output is handed to
\* Vasp2TraceOutput, which opens it as a file name.  No file has the empty
\* name; the working directory may or may not hold a file of that name.
FileNamedBy(text) ==
    IF text # <<>> /\ named_file THEN FileOf(RewrittenLines) ELSE NoFile

\* self.output = made, unless the constructor raised.
AssignOutput(made) ==
    IF made.status = "ok"
    THEN /\ output' = made
         /\ cpc' = "done"
         /\ UNCHANGED <<raised, log>>
    ELSE /\ Raise(made.error, "output", 0)
         /\ UNCHANGED output

\* self._stdout = stdout; self._stderr = stderr
\* self.output = Vasp2TraceOutput(stdout)
ProcessOutput ==
    /\ UNCHANGED <<pvars, avars>>
    /\ cpc = "output"
    /\ attrs' = [set |-> TRUE, _stdout |-> stdout, _stderr |-> stderr]
    /\ parser_calls' = parser_calls + 1
    /\ AssignOutput(Vasp2TraceOutput(stdout, NoRecord, FileNamedBy(stdout)))
    /\ UNCHANGED <<vasp2traceexe, folder_files, named_file, cwd, cwd_at_call,
                   folder_name, process, stdout, stderr>>

CallerNext ==
    \/ Requires
    \/ CheckFiles
    \/ ChangeDir
    \/ Popen
    \/ Communicate
    \/ DecodeStdout
    \/ WarnStderr
    \/ CheckReturnCode
    \/ ProcessOutput

(***************************************************************************)
(* BandTopologyAnalyzer and BandTopologyAnalyzerOutput                     *)
(***************************************************************************)
RecognizedKeys ==
    {"pos_tol", "gap_tol", "move_tol", "num_lines", "min_neighbour_dist",
     "iterator", "load", "save_file"}
SettingKeys == RecognizedKeys \cup {"verbose"}

\* z2 calculation defaults
z2_defaults ==
    [pos_tol |-> <<"default", "0.01">>,
     gap_tol |-> <<"default", "0.3">>,
     move_tol |-> <<"default", "0.3">>,
     num_lines |-> <<"default", "11">>,
     min_neighbour_dist |-> <<"default", "0.01">>,
     iterator |-> <<"default", "range(8, 27, 2)">>,
     load |-> <<"default", "True">>,
     save_file |-> <<"default", "z2run.json">>]

\* if z2_settings: for k, v in z2_settings.items(): z2d.update({k: v})
UpdatedDefaults(settings) ==
    IF settings.given /\ DOMAIN settings.map # {}
    THEN [k \in (DOMAIN z2_defaults) \cup (DOMAIN settings.map) |->
             IF k \in DOMAIN settings.map THEN settings.map[k] ELSE z2_defaults[k]]
    ELSE z2_defaults

\* The keyword arguments of the call z2pack.surface.run(...).
SurfaceRunKeywords ==
    {"pos_tol", "gap_tol", "move_tol", "num_lines", "min_neighbour_dist",
     "iterator", "save_file"}
SurfaceRunCall(sys, surf, z2d) ==
    [system |-> sys, surface |-> surf,
     settings |-> [k \in SurfaceRunKeywords |-> z2d[k]]]

\* The settings a caller may pass: none, or a value of the caller's own for
\* any of the recognized keys and for one key run() does not know.
SettingsChoices ==
    {[given |-> FALSE, map |-> <<>>]} \cup
    { [given |-> TRUE, map |-> [k \in ks |-> <<"user", k>>]] : ks \in SUBSET SettingKeys }

\* The surface functions: the default lambda t1, t2: [t1, t2, 0] and the
\* docstring's k_x = 0 example lambda t1, t2: [0, t1 / 2, t2].
Surfaces == {<<"lambda", "kz0">>, <<"lambda", "kx0">>}

\* surface("t1", "t2") for a surface function: the default gives the list;
\* t1 / 2 on a string is a TypeError.
SurfaceAt(surf) ==
    IF surf = <<"lambda", "kz0">> THEN [ok |-> TRUE, val |-> <<"t1", "t2", "0">>]
    ELSE [ok |-> FALSE, val |-> <<>>]

\* BandTopologyAnalyzerOutput.__init__(result, surface, chern_number, z2_invariant):
\* the four attributes are set, then self._parse_result(self, result) runs
\* _parse_result with result bound to the record itself and surface bound to
\* the convergence result.  accepts_any: the extraction functions return a
\* value for an object that is no convergence result (they raise otherwise);
\* result_callable: the convergence result can be called.
BandTopologyAnalyzerOutput(res, surf, chern_number, z2_invariant, accepts_any, result_callable) ==
    LET parse_result_arg == "self"
        parse_surface_arg == res
        fresh == [_result |-> res, surface |-> surf,
                  chern_number |-> chern_number, z2_invariant |-> z2_invariant]
    IN  IF ~accepts_any
        THEN [status |-> "raised", error |-> "AttributeError", obj |-> fresh,
              chern_args |-> <<parse_result_arg>>, z2_args |-> <<>>]
        ELSE IF ~result_callable
        THEN [status |-> "raised", error |-> "TypeError",
              obj |-> [fresh EXCEPT !.chern_number = <<"chern", parse_result_arg>>,
                                    !.z2_invariant = <<"z2", parse_result_arg>>],
              chern_args |-> <<parse_result_arg>>, z2_args |-> <<parse_result_arg>>]
        ELSE [status |-> "ok", error |-> "",
              obj |-> [_result |-> res,
                       surface |-> <<"call", parse_surface_arg, "t1", "t2">>,
                       chern_number |-> <<"chern", parse_result_arg>>,
                       z2_invariant |-> <<"z2", parse_result_arg>>],
              chern_args |-> <<parse_result_arg>>, z2_args |-> <<parse_result_arg>>]


NoCall == [system |-> <<>>, surface |-> <<>>, settings |-> <<>>]
NoOutput == [_result |-> "", surface |-> <<>>, chern_number |-> <<>>, z2_invariant |-> <<>>]
PyNone == <<"None">>

AnalyzerInit ==
    /\ apc = "new"
    /\ input_dir \in {"input", "calc"}
    /\ surface \in Surfaces
    /\ system = <<>>
    /\ z2_settings \in SettingsChoices
    /\ ext \in [run_ok : BOOLEAN, accepts_any : BOOLEAN, result_callable : BOOLEAN]
    /\ surface_run_call = NoCall
    /\ result = ""
    /\ bta = NoOutput
    /\ chern_args = <<>>
    /\ z2_args = <<>>
    /\ araised = ""

\* BandTopologyAnalyzer(input_dir, surface)
NewAnalyzer ==
    /\ UNCHANGED <<pvars, cvars>>
    /\ apc = "new"
    /\ system' = <<<<input_dir, "CHGCAR">>, <<input_dir, "INCAR">>, <<input_dir, "POSCAR">>,
                   <<input_dir, "POTCAR">>, <<input_dir, "wannier90.win">>>>
    /\ apc' = "ready"
    /\ UNCHANGED <<input_dir, surface, z2_settings, ext, surface_run_call, result,
                   bta, chern_args, z2_args, araised>>

\* BandTopologyAnalyzer.run(z2_settings): the call of z2pack.surface.run, which
\* returns the convergence result or fails, then the construction of the
\* output record from the result and the surface.
Run ==
    /\ UNCHANGED <<pvars, cvars>>
    /\ apc = "ready"
    /\ surface_run_call' = SurfaceRunCall(system, surface, UpdatedDefaults(z2_settings))
    /\ IF ~ext.run_ok
       THEN /\ araised' = "z2pack.surface.run"
            /\ apc' = "raised"
            /\ UNCHANGED <<result, bta, chern_args, z2_args>>
       ELSE LET made == BandTopologyAnalyzerOutput("wcc", surface, PyNone, PyNone,
                                                   ext.accepts_any, ext.result_callable)
            IN  /\ result' = "wcc"
                /\ chern_args' = made.chern_args
                /\ z2_args' = made.z2_args
                /\ bta' = made.obj
                /\ araised' = made.error
                /\ apc' = IF made.status = "ok" THEN "done" ELSE "raised"
    /\ UNCHANGED <<input_dir, surface, system, z2_settings, ext>>

\* BandTopologyAnalyzerOutput(result, surface) built by a caller of its own.
ConstructOutput ==
    /\ UNCHANGED <<pvars, cvars>>
    /\ apc = "new"
    /\ LET made == BandTopologyAnalyzerOutput("wcc", surface, PyNone, PyNone,
                                              ext.accepts_any, ext.result_callable)
       IN  /\ result' = "wcc"
           /\ chern_args' = made.chern_args
           /\ z2_args' = made.z2_args
           /\ bta' = made.obj
           /\ araised' = made.error
           /\ apc' = IF made.status = "ok" THEN "built" ELSE "raised"
    /\ UNCHANGED <<input_dir, surface, system, z2_settings, ext, surface_run_call>>

AnalyzerNext ==
    \/ NewAnalyzer
    \/ Run
    \/ ConstructOutput

(***************************************************************************)
(* Specifications.  Each starts one of the three programs; the variables   *)
(* of the other two stay as they are.                                      *)
(***************************************************************************)
ParserIdle ==
    /\ ppc = "idle"
    /\ gen = [S |-> 0, K |-> 0, sizes |-> <<>>, nbands |-> 0, eof_newline |-> TRUE]
    /\ stray = NoStray
    /\ trace_file = "removed"
    /\ v2to = NoObject
    /\ stored = NoDict
    /\ restored = NoObject

CallerIdle ==
    /\ cpc = "idle"
    /\ vasp2traceexe = FALSE
    /\ folder_files = {}
    /\ named_file = FALSE
    /\ cwd = "/home"
    /\ cwd_at_call = "/home"
    /\ folder_name = "/home"
    /\ process = NoProcess
    /\ stdout = <<>>
    /\ stderr = <<>>
    /\ log = <<>>
    /\ raised = NotRaised
    /\ output = NoObject
    /\ parser_calls = 0
    /\ attrs = [set |-> FALSE, _stdout |-> <<>>, _stderr |-> <<>>]

AnalyzerIdle ==
    /\ apc = "idle"
    /\ input_dir = "input"
    /\ surface = <<"lambda", "kz0">>
    /\ system = <<>>
    /\ z2_settings = [given |-> FALSE, map |-> <<>>]
    /\ ext = [run_ok |-> FALSE, accepts_any |-> FALSE, result_callable |-> FALSE]
    /\ surface_run_call = NoCall
    /\ result = ""
    /\ bta = NoOutput
    /\ chern_args = <<>>
    /\ z2_args = <<>>
    /\ araised = ""

ParserNext ==
    \/ Construct
    \/ Serialize
    \/ RemoveTraceFile
    \/ RewriteTraceFile
    \/ Deserialize

InitParser == ParserInit /\ CallerIdle /\ AnalyzerIdle
InitCaller == CallerInit /\ ParserIdle /\ AnalyzerIdle
InitAnalyzer == AnalyzerInit /\ ParserIdle /\ CallerIdle

SpecParser == InitParser /\ [][ParserNext]_vars
SpecCaller == InitCaller /\ [][CallerNext]_vars
SpecAnalyzer == InitAnalyzer /\ [][AnalyzerNext]_vars

(***************************************************************************)
(* Claims about the trace parser (SpecParser).                             *)
(***************************************************************************)
WellFormed == stray = NoStray
Constructed == ppc # "new"
KeysUpTo(K) == 0 .. (K - 1)

\* C1 (as claimed): for a well-formed file with header counts (B, soc, S, K),
\* S >= 1 and K >= 1, parsing returns exactly S symmetry operations and exactly
\* K k-vectors and each of the three per-k-vector mappings has the key set
\* {0, ..., K-1}.  Stated on the files whose little cogroups before the last
\* hold two operations or more, which are the files C2's case leaves alone.
C1_CountsAndKeySets ==
    (Constructed /\ WellFormed /\ \A k \in 1 .. (gen.K - 1) : gen.sizes[k] >= 2)
    => /\ v2to.status = "ok"
       /\ ArrLen(v2to.out.symm_ops) = gen.S
       /\ ArrLen(v2to.out.kvecs) = gen.K
       /\ DOMAIN v2to.out.num_kvec_symm_ops = KeysUpTo(gen.K)
       /\ DOMAIN v2to.out.symm_ops_in_little_cogroup = KeysUpTo(gen.K)
       /\ DOMAIN v2to.out.traces = KeysUpTo(gen.K)

\* C2 (as claimed): for a well-formed file and every k-vector index i in
\* 0..K-1, len(symm_ops_in_little_cogroup[i]) = num_kvec_symm_ops[i], the
\* count being the first line of block i and the list its second line, for
\* every little-cogroup size >= 1.  Stated on the files with two k-vectors or
\* more, where the k-vector table has one row per k-vector.
C2_IndexListMatchesCount ==
    (Constructed /\ WellFormed /\ gen.K >= 2)
    => /\ v2to.status = "ok"
       /\ \A i \in KeysUpTo(gen.K) :
            /\ i \in DOMAIN v2to.out.num_kvec_symm_ops
            /\ i \in DOMAIN v2to.out.symm_ops_in_little_cogroup
            /\ v2to.out.num_kvec_symm_ops[i] = gen.sizes[i + 1]
            /\ v2to.out.symm_ops_in_little_cogroup[i] = [j \in 1 .. gen.sizes[i + 1] |-> j]
            /\ Len(v2to.out.symm_ops_in_little_cogroup[i]) = v2to.out.num_kvec_symm_ops[i]

\* The lines from the first block line on that hold exactly one token once
\* split on whitespace, by 0-based line number.
RECURSIVE OneTokenLines(_, _, _)
OneTokenLines(lines, jdx, acc) ==
    IF jdx >= Len(lines) THEN acc
    ELSE OneTokenLines(lines, jdx + 1,
                       IF Len(str_split_ws(Item(lines, jdx))) = 1
                       THEN Append(acc, jdx) ELSE acc)

\* C8 (as claimed): the block starts recorded are exactly the lines, from the
\* first block line (index 4 + S + K) to the end of the file, that hold
\* exactly one whitespace-separated token: a blank line is none, a one-token
\* line with blanks or tabs around it is one.
C8_BlockStartsAreOneTokenLines ==
    (Constructed /\ v2to.scanned)
    => v2to.block_starts = OneTokenLines(InputLines(gen, stray), FirstBlockLine(gen), <<>>)

\* C7 (as claimed): a trace record turned into its map and built again from
\* the map equals the original field for field.
C7_RoundTrip ==
    ppc = "restored"
    => /\ restored.status = "ok"
       /\ restored._vasp2trace_stdout = v2to._vasp2trace_stdout
       /\ restored.out = v2to.out

(***************************************************************************)
(* Vasp2TraceCaller                                                        *)
(***************************************************************************)
BothFiles == {"OUTCAR", "WAVECAR"}
Ended == cpc \in {"done", "raised"}
WarnedBeforeRaise ==
    \E i, j \in 1 .. Len(log) : i < j /\ log[i] = "warn" /\ log[j] = "raise"

\* C3: on a folder where OUTCAR or WAVECAR (one or both) is not a file, the
\* vasp2trace process is never started, and once __init__ has made its file
\* check the call has ended with FileNotFoundError raised by that check; so
\* the start of the process neither precedes nor accompanies the error.
C3_MissingFileErrorBeforeSubprocess ==
    folder_files # BothFiles
    => /\ ~process.started
       /\ \A i \in 1 .. Len(log) : log[i] # "popen"
       /\ cpc \in {"requires", "check", "raised"}
       /\ (cpc = "raised" /\ raised.at # "requires"
           => raised.type = "FileNotFoundError" /\ raised.at = "check")

\* C3's case: the call on a folder holding OUTCAR only has ended with the
\* missing-file error.
C3_Witness ==
    /\ folder_files = {"OUTCAR"}
    /\ cpc = "raised"
    /\ raised.type = "FileNotFoundError"
    /\ raised.at = "check"
    /\ ~process.started

\* C4 (as claimed): when the process has finished with a non-zero exit code c
\* the call ends with RuntimeError carrying c, the warning for a non-empty
\* stderr comes before the failure, the parser is never invoked and no output
\* record is set.
C4_NonZeroExitRaisesRuntimeError ==
    (Ended /\ process.finished /\ process.returncode # 0)
    => /\ cpc = "raised"
       /\ raised.type = "RuntimeError"
       /\ raised.code = process.returncode
       /\ (process.stderr # <<>> => WarnedBeforeRaise)
       /\ parser_calls = 0
       /\ output = NoObject

\* The lines of a text, each with its newline, as readlines gives them.
TextLines(text) ==
    LET ends == SelectSeq([i \in 1 .. Len(text) |-> i],
                          LAMBDA i : text[i] = NL \/ i = Len(text))
    IN  [k \in 1 .. Len(ends) |->
            SubSeq(text, IF k = 1 THEN 1 ELSE ends[k - 1] + 1, ends[k])]

\* C9 (as claimed): when the process exits with code 0 and its standard
\* output is a well-formed trace listing (its standard error being empty),
\* the construction completes and the output attribute is the record parsed
\* from the captured standard output.
C9_OutputParsedFromStdout ==
    (Ended /\ process.finished /\ process.returncode = 0
           /\ process.stdout = ListingBytes /\ process.stderr = <<>>)
    => /\ cpc = "done"
       /\ output.status = "ok"
       /\ output.out = parse_lines(TextLines(stdout)).out

\* C10: when the call fails with the missing-file error the working directory
\* is the one of before the call; on every path past the file check the
\* working directory is folder_name from before the process starts on, and it
\* stays folder_name whether the call ends well, with a non-zero exit, with
\* an undecodable output or with a failure of the parser.
C10_WorkingDirectory ==
    /\ (cpc = "raised" /\ raised.at \in {"requires", "check"} => cwd = cwd_at_call)
    /\ (cpc \in {"requires", "check", "chdir"} => cwd = cwd_at_call)
    /\ (process.started => cwd = folder_name)
    /\ (cpc \in {"popen", "communicate", "decode", "stderr", "returncode", "output", "done"}
        => cwd = folder_name)
    /\ (cpc = "raised" /\ raised.at \in {"decode", "stderr", "returncode", "output"}
        => cwd = folder_name)

\* C10's case: a call from another directory has ended with the non-zero
\* exit failure and the working directory is folder_name.
C10_Witness ==
    /\ cpc = "raised"
    /\ raised.at = "returncode"
    /\ cwd_at_call # folder_name
    /\ cwd = folder_name

(***************************************************************************)
(* BandTopologyAnalyzer                                                    *)
(***************************************************************************)

\* C5 (as claimed): for each of the eight recognized keys the value handed to
\* z2pack.surface.run is the value of z2_settings when it has the key and the
\* default when it has not.
C5_SettingsHandedOver ==
    surface_run_call # NoCall
    => \A k \in RecognizedKeys :
         /\ k \in DOMAIN surface_run_call.settings
         /\ surface_run_call.settings[k] =
                IF z2_settings.given /\ k \in DOMAIN z2_settings.map
                THEN z2_settings.map[k] ELSE z2_defaults[k]

\* C6 (as claimed): constructing BandTopologyAnalyzerOutput(result, surface)
\* calls the Chern and Z2 extraction functions each with the convergence
\* result, stores their values together, and sets surface to the surface
\* function evaluated at ("t1", "t2").
C6_ExtractionOnResult ==
    result # ""
    => /\ chern_args = <<result>>
       /\ z2_args = <<result>>
       /\ (apc \in {"done", "built"}
           => /\ bta.chern_number = <<"chern", result>>
              /\ bta.z2_invariant = <<"z2", result>>
              /\ bta.surface = <<"call", surface, "t1", "t2">>)

====
